---- MODULE Spec2Model ----
(***************************************************************************)
(* nix-index file database: the Writer, the Reader, and the streaming      *)
(* query iterator (ReaderIter) of src/src/database.rs, over byte-level     *)
(* records.  Bytes are numbers (ASCII codes), byte strings are sequences,  *)
(* offsets are 0-based as in the Rust code (buf[i] of Rust is buf[i+1]     *)
(* here).  An Option is a sequence of length 0 (None) or 1 (Some).         *)
(***************************************************************************)
EXTENDS Integers, Sequences, FiniteSets, TLC

\* ------------------------------------------------------------------ bounds

\* Largest number of Writer::add calls made on one database.
MaxAdds == 2

\* Largest number of records of a database file that no Writer wrote.
MaxDiskRecords == 3

\* Deepest nesting of the regular expressions of QuerySpec.
MaxDepth == 2

\* -------------------------------------------------------------- constants

\* const FORMAT_VERSION: u64 = 1
FORMAT_VERSION == 1

\* const FILE_MAGIC = b"NIXI"
FILE_MAGIC == <<78, 73, 88, 73>>

\* The NUL byte that separates metadata and path of a record (b"\0").
NUL == 0

\* The record terminator of a decoded block (b'\n').
NL == 10

\* The tag of a package record: the footer meta b"p" of Writer::add, and the
\* `p` of the package entry pattern "^p\0".
PKG_TAG == 112

\* ------------------------------------------------------------ byte helpers

None == <<>>

Some(x) == <<x>>

Min(S) == CHOOSE x \in S : \A y \in S : x <= y

Max(S) == CHOOSE x \in S : \A y \in S : x >= y

\* Rust's buf[a..b] (0-based, b exclusive).
Slice(buf, a, b) == SubSeq(buf, a + 1, b)

\* Offsets i in lo..hi-1 with buf[i] = byte (0-based).
Positions(buf, byte, lo, hi) == {i \in lo..(hi - 1) : buf[i + 1] = byte}

\* Lexicographic order on byte strings (the order of Vec<u8>).
RECURSIVE BytesLess(_, _)
BytesLess(a, b) ==
    IF b = <<>> THEN FALSE
    ELSE IF a = <<>> THEN TRUE
    ELSE IF Head(a) # Head(b) THEN Head(a) < Head(b)
    ELSE BytesLess(Tail(a), Tail(b))

\* ------------------------------------------------- regular expressions
\* regex_syntax::Expr, restricted to the node kinds Query::run looks at, and
\* its matching semantics.  A haystack is the slice buf[lo..]; MatchEnds is
\* the set of end offsets of the matches of e that start at offset i.

StartText == [t |-> "StartText"]

StartLine == [t |-> "StartLine"]

Empty == [t |-> "Empty"]

LiteralBytes(bs) == [t |-> "LiteralBytes", bytes |-> bs]

Group(e) == [t |-> "Group", e |-> e]

Repeat(e) == [t |-> "Repeat", e |-> e]

Concat(es) == [t |-> "Concat", es |-> es]

Alternate(es) == [t |-> "Alternate", es |-> es]

RECURSIVE MatchEnds(_, _, _, _)
RECURSIVE ConcatEnds(_, _, _, _, _)
RECURSIVE RepeatEnds(_, _, _, _)

MatchEnds(e, buf, lo, i) ==
    CASE e.t = "Empty" -> {i}
      [] e.t = "LiteralBytes" ->
            IF /\ i + Len(e.bytes) <= Len(buf)
               /\ Slice(buf, i, i + Len(e.bytes)) = e.bytes
            THEN {i + Len(e.bytes)} ELSE {}
      [] e.t = "StartText" -> IF i = lo THEN {i} ELSE {}
      [] e.t = "StartLine" -> IF i = lo \/ buf[i] = NL THEN {i} ELSE {}
      [] e.t = "Group" -> MatchEnds(e.e, buf, lo, i)
      [] e.t = "Repeat" -> RepeatEnds(e.e, buf, lo, {i})
      [] e.t = "Concat" -> ConcatEnds(e.es, 1, buf, lo, {i})
      [] e.t = "Alternate" ->
            UNION {MatchEnds(e.es[k], buf, lo, i) : k \in DOMAIN e.es}

ConcatEnds(es, k, buf, lo, from) ==
    IF k > Len(es) \/ from = {} THEN from
    ELSE ConcatEnds(es, k + 1, buf, lo,
                    UNION {MatchEnds(es[k], buf, lo, i) : i \in from})

RepeatEnds(e, buf, lo, from) ==
    LET more == from \cup UNION {MatchEnds(e, buf, lo, i) : i \in from}
    IN  IF more = from THEN from ELSE RepeatEnds(e, buf, lo, more)

\* End offsets of all matches of e in buf[lo..].
AllMatchEnds(e, buf, lo) ==
    UNION {MatchEnds(e, buf, lo, i) : i \in lo..Len(buf)}

\* Regex::is_match(haystack)
is_match(e, haystack) == AllMatchEnds(e, haystack, 0) # {}

\* ------------------------------------------------------- the grep crate
\* Grep::read_match(mat, buf, start): the first line of buf that holds a
\* match of the pattern found in buf[start..], as the offsets of the line
\* (its terminator included), or None.

find_line_start(buf, pos) ==
    LET nl == Positions(buf, NL, 0, pos)
    IN  IF nl = {} THEN 0 ELSE Max(nl) + 1

find_line_end(buf, pos) ==
    LET nl == Positions(buf, NL, pos, Len(buf))
    IN  IF nl = {} THEN Len(buf) ELSE Min(nl) + 1

read_match(re, buf, start) ==
    IF start >= Len(buf) THEN None
    ELSE LET ends == AllMatchEnds(re, buf, start)
         IN  IF ends = {} THEN None
             ELSE Some([start |-> find_line_start(buf, Min(ends)),
                        end   |-> find_line_end(buf, Min(ends))])

\* ----------------------------------------------------------- store paths
\* StorePath: hash, name and origin (attr, output, toplevel).  Its JSON
\* serialization is the byte string {hash,name,attr,output,t} (f for a
\* package that is not top-level).

StorePath(hash, name, attr, output, toplevel) ==
    [hash |-> hash, name |-> name,
     origin |-> [attr |-> attr, output |-> output, toplevel |-> toplevel]]

\* Splits bytes at every sep byte.
RECURSIVE SplitBy(_, _)
SplitBy(bytes, sep) ==
    LET at == Positions(bytes, sep, 0, Len(bytes))
    IN  IF at = {} THEN <<bytes>>
        ELSE <<Slice(bytes, 0, Min(at))>>
             \o SplitBy(Slice(bytes, Min(at) + 1, Len(bytes)), sep)

\* serde_json::to_vec(&path)
to_vec(sp) ==
    <<123>> \o sp.hash \o <<44>> \o sp.name \o <<44>> \o sp.origin.attr
    \o <<44>> \o sp.origin.output \o <<44>>
    \o (IF sp.origin.toplevel THEN <<116>> ELSE <<102>>) \o <<125>>

\* serde_json::from_slice(json): Some(StorePath), or None when json is
\* not the serialization of a store path.
from_slice(json) ==
    IF Len(json) < 2 \/ json[1] # 123 \/ json[Len(json)] # 125 THEN None
    ELSE LET fields == SplitBy(Slice(json, 1, Len(json) - 1), 44)
         IN  IF Len(fields) # 5 \/ fields[5] \notin {<<116>>, <<102>>}
             THEN None
             ELSE Some(StorePath(fields[1], fields[2], fields[3],
                                 fields[4], fields[5] = <<116>>))

\* ---------------------------------------------------------- file entries
\* FileNode and FileTreeEntry, and the file record `f NUL meta NUL path`:
\* meta is size digits then r or x (regular), size digits then d
\* (directory), target then s (symlink).

Regular(size, executable) ==
    [type |-> "Regular", size |-> size, executable |-> executable]

Symlink(target) == [type |-> "Symlink", target |-> target]

Directory(size) == [type |-> "Directory", size |-> size]

FileTreeEntry(path, node) == [path |-> path, node |-> node]

RECURSIVE ToDecimal(_)
ToDecimal(n) ==
    IF n < 10 THEN <<48 + n>> ELSE ToDecimal(n \div 10) \o <<48 + (n % 10)>>

\* The number written as digits, or -1 when digits is not a decimal number.
RECURSIVE ParseDecimal(_)
ParseDecimal(digits) ==
    IF digits = <<>> \/ \E k \in DOMAIN digits : digits[k] \notin 48..57
    THEN -1
    ELSE IF Len(digits) = 1 THEN digits[1] - 48
    ELSE 10 * ParseDecimal(SubSeq(digits, 1, Len(digits) - 1))
         + (digits[Len(digits)] - 48)

EncodeMeta(node) ==
    CASE node.type = "Regular" ->
            ToDecimal(node.size) \o (IF node.executable THEN <<120>> ELSE <<114>>)
      [] node.type = "Symlink" -> node.target \o <<115>>
      [] node.type = "Directory" -> ToDecimal(node.size) \o <<100>>

\* FileTreeEntry::encode: the record bytes of an entry.
EncodeEntry(entry) ==
    <<102, NUL>> \o EncodeMeta(entry.node) \o <<NUL>> \o entry.path

DecodeMeta(meta) ==
    IF meta = <<>> THEN None
    ELSE LET kind == meta[Len(meta)]
             rest == SubSeq(meta, 1, Len(meta) - 1)
         IN  CASE kind \in {114, 120} ->
                    IF ParseDecimal(rest) < 0 THEN None
                    ELSE Some(Regular(ParseDecimal(rest), kind = 120))
               [] kind = 100 ->
                    IF ParseDecimal(rest) < 0 THEN None
                    ELSE Some(Directory(ParseDecimal(rest)))
               [] kind = 115 -> Some(Symlink(rest))
               [] OTHER -> None

\* FileTreeEntry::decode(record): Some(entry), or None when the bytes are
\* not a file record.
DecodeEntry(record) ==
    IF Len(record) < 2 \/ record[1] # 102 \/ record[2] # NUL THEN None
    ELSE LET body == Slice(record, 2, Len(record))
             seps == Positions(body, NUL, 0, Len(body))
         IN  IF seps = {} THEN None
             ELSE LET node == DecodeMeta(Slice(body, 0, Min(seps)))
                  IN  IF node = None THEN None
                      ELSE Some(FileTreeEntry(
                               Slice(body, Min(seps) + 1, Len(body)), node[1]))

\* FileTree::to_list: the entries of a tree (a set of entries with distinct
\* paths) as a list sorted by path.
RECURSIVE to_list(_)
to_list(files) ==
    IF files = {} THEN <<>>
    ELSE LET first == CHOOSE e \in files :
                         \A o \in files \ {e} : BytesLess(e.path, o.path)
         IN  <<first>> \o to_list(files \ {first})

\* ----------------------------------------------------------- frame codec
\* Front coding: a frame holds the length of the prefix a record shares with
\* the record before it, and the rest of the record.

RECURSIVE SharedLen(_, _)
SharedLen(a, b) ==
    IF a = <<>> \/ b = <<>> \/ Head(a) # Head(b) THEN 0
    ELSE 1 + SharedLen(Tail(a), Tail(b))

\* frcode::Encoder over a list of records, starting after the record last.
RECURSIVE FrcodeEncode(_, _)
FrcodeEncode(last, records) ==
    IF records = <<>> THEN <<>>
    ELSE LET shared == SharedLen(last, Head(records))
         IN  <<[shared |-> shared,
                suffix |-> Slice(Head(records), shared, Len(Head(records)))]>>
             \o FrcodeEncode(Head(records), Tail(records))

\* frcode::Decoder over n frames from offset pos: the decoded block (every
\* record followed by NL) and the last record, or an error when a frame
\* shares more bytes than the record before it has.
RECURSIVE FrcodeDecode(_, _, _, _)
FrcodeDecode(frames, pos, last, n) ==
    IF n = 0 THEN [ok |-> TRUE, block |-> <<>>, last |-> last]
    ELSE LET fr == frames[pos + 1]
         IN  IF fr.shared > Len(last)
             THEN [ok |-> FALSE, block |-> <<>>, last |-> last]
             ELSE LET record == SubSeq(last, 1, fr.shared) \o fr.suffix
                      rest == FrcodeDecode(frames, pos + 1, record, n - 1)
                  IN  [ok |-> rest.ok,
                       block |-> record \o <<NL>> \o rest.block,
                       last |-> rest.last]

\* --------------------------------------------------------- file header
\* A u64 is kept as three limbs of 3, 3 and 2 bytes, low limb first.

U64(n) == <<n, 0, 0>>

\* WriteBytesExt::write_u64::<LittleEndian>
write_u64(v) ==
    <<v[1] % 256, (v[1] \div 256) % 256, v[1] \div 65536,
      v[2] % 256, (v[2] \div 256) % 256, v[2] \div 65536,
      v[3] % 256, v[3] \div 256>>

\* read_u64 reading the bytes in big-endian order.
read_u64_big_endian(b) ==
    <<b[8] + 256 * b[7] + 65536 * b[6],
      b[5] + 256 * b[4] + 65536 * b[3],
      b[2] + 256 * b[1]>>

\* ReadBytesExt::read_u64::<LittleEndian>
read_u64(b) ==
    <<b[1] + 256 * b[2] + 65536 * b[3],
      b[4] + 256 * b[5] + 65536 * b[6],
      b[7] + 256 * b[8]>>

\* ------------------------------------------------------------ errors

UnsupportedFileType(magic) == [kind |-> "UnsupportedFileType", magic |-> magic]

UnsupportedVersion(version) == [kind |-> "UnsupportedVersion", version |-> version]

MissingPackageEntry == [kind |-> "MissingPackageEntry"]

Frcode == [kind |-> "Frcode"]

EntryParse(bytes) == [kind |-> "EntryParse", bytes |-> bytes]

StorePathParse(bytes) == [kind |-> "StorePathParse", bytes |-> bytes]

\* ------------------------------------------------------------ Query::run

\* RewriteAnchors that looks at the expression and at the members of a
\* top-level concatenation only.
RewriteAnchors_top_level(e) ==
    IF e.t = "StartText" THEN LiteralBytes(<<NUL>>)
    ELSE IF e.t = "Concat"
    THEN Concat([k \in DOMAIN e.es |->
                    IF e.es[k].t = "StartText" THEN LiteralBytes(<<NUL>>)
                    ELSE e.es[k]])
    ELSE e

\* RewriteAnchors leaving the expression as the user wrote it.
RewriteAnchors_identity(e) == e

\* The loop of Query::run over the expression tree: every StartText node
\* becomes the literal NUL byte.
RECURSIVE RewriteAnchors(_)
RewriteAnchors(e) ==
    CASE e.t = "StartText" -> LiteralBytes(<<NUL>>)
      [] e.t = "Group" -> Group(RewriteAnchors(e.e))
      [] e.t = "Repeat" -> Repeat(RewriteAnchors(e.e))
      [] e.t = "Concat" ->
            Concat([k \in DOMAIN e.es |-> RewriteAnchors(e.es[k])])
      [] e.t = "Alternate" ->
            Alternate([k \in DOMAIN e.es |-> RewriteAnchors(e.es[k])])
      [] OTHER -> e

\* GrepBuilder::new("^p\0"): grep compiles its patterns in multi-line mode,
\* so the anchor is a start-of-line anchor.
package_entry_pattern == Concat(<<StartLine, LiteralBytes(<<PKG_TAG, NUL>>)>>)

\* Query::run: the ReaderIter of a query on an opened reader.
run(reader, exact_regex, package_pattern, hash) ==
    [reader |-> reader,
     found |-> <<>>,
     found_without_package |-> <<>>,
     pattern |-> RewriteAnchors(exact_regex),
     exact_pattern |-> exact_regex,
     package_name_pattern |-> package_pattern,
     package_hash |-> hash]

\* ----------------------------------------------------- ReaderIter::fill_buf

\* Line 321: the payload of the package record at mat.
package_json(block, mat) == Slice(block, mat.start + 2, mat.end - 1)

\* find_package taking the first package record it finds for the last of
\* the block.
find_package_one_package(block, cache, item_end) ==
    LET parsed(mat, json, pkg) ==
            IF pkg = None
            THEN [cache |-> cache,
                  err |-> Some(StorePathParse(json)), val |-> None]
            ELSE [cache |-> [cached_package |->
                                Some([pkg |-> pkg[1], end |-> mat.end]),
                             no_more_package |-> TRUE],
                  err |-> None,
                  val |-> Some([pkg |-> pkg[1], end |-> mat.end])]
        sliced(mat, json) == parsed(mat, json, from_slice(json))
        searched(m) ==
            IF m = None
            THEN [cache |-> [cache EXCEPT !.no_more_package = TRUE],
                  err |-> None, val |-> None]
            ELSE sliced(m[1], package_json(block, m[1]))
    IN  IF /\ cache.cached_package # None
           /\ item_end < cache.cached_package[1].end
        THEN [cache |-> cache, err |-> None, val |-> cache.cached_package]
        ELSE searched(IF cache.no_more_package THEN None
                      ELSE read_match(package_entry_pattern, block, item_end))

\* The find_package closure: the first package record at or after item_end,
\* with the offset of its end; cache is (cached_package, no_more_package).
find_package(block, cache, item_end) ==
    LET parsed(mat, json, pkg) ==
            IF pkg = None
            THEN [cache |-> cache,
                  err |-> Some(StorePathParse(json)), val |-> None]
            ELSE [cache |-> [cache EXCEPT !.cached_package =
                                Some([pkg |-> pkg[1], end |-> mat.end])],
                  err |-> None,
                  val |-> Some([pkg |-> pkg[1], end |-> mat.end])]
        sliced(mat, json) == parsed(mat, json, from_slice(json))
        searched(m) ==
            IF m = None
            THEN [cache |-> [cache EXCEPT !.no_more_package = TRUE],
                  err |-> None, val |-> None]
            ELSE sliced(m[1], package_json(block, m[1]))
    IN  IF /\ cache.cached_package # None
           /\ item_end < cache.cached_package[1].end
        THEN [cache |-> cache, err |-> None, val |-> cache.cached_package]
        ELSE searched(IF cache.no_more_package THEN None
                      ELSE read_match(package_entry_pattern, block, item_end))

\* should_search_package passing a package that meets either bound.
should_search_package_either(it, pkg) ==
    \/ /\ it.package_name_pattern # None
       /\ is_match(it.package_name_pattern[1], pkg.name)
    \/ /\ it.package_hash # None
       /\ it.package_hash[1] = pkg.hash
    \/ it.package_name_pattern = None /\ it.package_hash = None

\* The should_search_package closure.
should_search_package(it, pkg) ==
    /\ \/ it.package_name_pattern = None
       \/ is_match(it.package_name_pattern[1], pkg.name)
    /\ \/ it.package_hash = None
       \/ it.package_hash[1] = pkg.hash

\* adopt losing the entries: the buffer is cleared and nothing is pushed.
adopt_loses_entries(it, pkg) == [it EXCEPT !.found_without_package = <<>>]

\* Lines 345-347: every entry without a package is pushed to found with pkg.
adopt(it, pkg) ==
    [it EXCEPT
        !.found = it.found \o
            [k \in DOMAIN it.found_without_package |->
                [pkg |-> pkg, entry |-> it.found_without_package[k]]],
        !.found_without_package = <<>>]

\* attribute_orphans going on to the scan when the payload of the first
\* package record of the block does not parse.
attribute_orphans_ignores_error(it, block, cache) ==
    LET looked(fp) ==
            IF fp.err # None \/ fp.val = None
            THEN [it |-> it, cache |-> fp.cache, pos |-> 0, err |-> None]
            ELSE IF ~should_search_package(it, fp.val[1].pkg)
            THEN [it |-> [it EXCEPT !.found_without_package = <<>>],
                  cache |-> fp.cache, pos |-> fp.val[1].end, err |-> None]
            ELSE [it |-> adopt(it, fp.val[1].pkg),
                  cache |-> fp.cache, pos |-> 0, err |-> None]
    IN  IF it.found_without_package = <<>>
        THEN [it |-> it, cache |-> cache, pos |-> 0, err |-> None]
        ELSE looked(find_package(block, cache, 0))

\* attribute_orphans giving the entries to the first package of the block
\* whether the bounds accept it or not.
attribute_orphans_unfiltered(it, block, cache) ==
    LET looked(fp) ==
            IF fp.err # None
            THEN [it |-> it, cache |-> fp.cache, pos |-> 0, err |-> fp.err]
            ELSE IF fp.val = None
            THEN [it |-> it, cache |-> fp.cache, pos |-> 0, err |-> None]
            ELSE [it |-> adopt(it, fp.val[1].pkg),
                  cache |-> fp.cache, pos |-> 0, err |-> None]
    IN  IF it.found_without_package = <<>>
        THEN [it |-> it, cache |-> cache, pos |-> 0, err |-> None]
        ELSE looked(find_package(block, cache, 0))

\* Lines 335-350: entries left without a package by the blocks before are
\* given the first package of this block, or dropped when it is filtered
\* out.  The result is the iterator, the cache, the scan position and an
\* error.
attribute_orphans(it, block, cache) ==
    LET looked(fp) ==
            IF fp.err # None
            THEN [it |-> it, cache |-> fp.cache, pos |-> 0, err |-> fp.err]
            ELSE IF fp.val = None
            THEN [it |-> it, cache |-> fp.cache, pos |-> 0, err |-> None]
            ELSE IF ~should_search_package(it, fp.val[1].pkg)
            THEN [it |-> [it EXCEPT !.found_without_package = <<>>],
                  cache |-> fp.cache, pos |-> fp.val[1].end, err |-> None]
            ELSE [it |-> adopt(it, fp.val[1].pkg),
                  cache |-> fp.cache, pos |-> 0, err |-> None]
    IN  IF it.found_without_package = <<>>
        THEN [it |-> it, cache |-> cache, pos |-> 0, err |-> None]
        ELSE looked(find_package(block, cache, 0))

\* entry_bytes keeping the terminator of the record.
entry_bytes_with_terminator(block, mat) == Slice(block, mat.start, mat.end)

\* Line 356: the bytes of the record at mat, without its terminator.
entry_bytes(block, mat) == Slice(block, mat.start, mat.end - 1)

\* is_package_entry never recognizing a package record.
is_package_entry_never(bytes) == FALSE

\* Line 358: the record is a package record.
is_package_entry(bytes) == is_match(package_entry_pattern, bytes)

\* exact_match without the check for false positives.
exact_match_unchecked(it, entry) == TRUE

\* Line 377: the user's regex matches the path of the decoded entry.
exact_match(it, entry) == is_match(it.exact_pattern, entry.path)

\* skip_to jumping to the end of the matched record only.
skip_to_match_end(mat, package_end) == mat.end

\* Line 368: where the scan goes on after a match in a package that the
\* bounds reject, package_end being the end of its package record.
skip_to(mat, package_end) == package_end

RECURSIVE scan_matches(_, _, _, _)

\* scan_matches decoding the record before it looks at the bounds.
scan_matches_decode_first(it, block, cache, pos) ==
    LET iteration(to, skipped) ==
            [from |-> pos, to |-> to, skipped |-> skipped]
        continue(to, skipped, rest) ==
            [it |-> rest.it, err |-> rest.err,
             iterations |-> <<iteration(to, skipped)>> \o rest.iterations]
        again(it2, cache2, to, skipped) ==
            continue(to, skipped, scan_matches(it2, block, cache2, to))
        fail(mat, err) ==
            [it |-> it, err |-> err,
             iterations |-> <<iteration(mat.end, FALSE)>>]
        attributed(mat, entry, fp) ==
            IF fp.err # None THEN fail(mat, fp.err)
            ELSE IF fp.val = None
            THEN again([it EXCEPT !.found_without_package = Append(@, entry)],
                       fp.cache, mat.end, FALSE)
            ELSE again([it EXCEPT !.found =
                           Append(@, [pkg |-> fp.val[1].pkg, entry |-> entry])],
                       fp.cache, mat.end, FALSE)
        decoded(mat, bytes, fp, entry) ==
            IF entry = None
            THEN fail(mat, Some(EntryParse(bytes)))
            ELSE IF ~exact_match(it, entry[1])
            THEN again(it, fp.cache, mat.end, FALSE)
            ELSE attributed(mat, entry[1],
                            find_package(block, fp.cache, mat.end))
        filtered(mat, bytes, fp) ==
            IF fp.err # None THEN fail(mat, fp.err)
            ELSE IF DecodeEntry(bytes) = None
            THEN fail(mat, Some(EntryParse(bytes)))
            ELSE IF /\ fp.val # None
                    /\ ~should_search_package(it, fp.val[1].pkg)
            THEN again(it, fp.cache, skip_to(mat, fp.val[1].end), TRUE)
            ELSE decoded(mat, bytes, fp, DecodeEntry(bytes))
        matched(mat, bytes) ==
            IF is_package_entry(bytes)
            THEN again(it, cache, mat.end, FALSE)
            ELSE filtered(mat, bytes, find_package(block, cache, mat.end))
        searched(m) ==
            IF m = None THEN [it |-> it, err |-> None, iterations |-> <<>>]
            ELSE matched(m[1], entry_bytes(block, m[1]))
    IN  searched(read_match(it.pattern, block, pos))

\* Lines 353-385: the loop over the matches of the pattern in a block, from
\* offset pos.  The result is the iterator, an error, and for every
\* iteration of the loop the value of pos when read_match was called (from),
\* its value when the iteration ended (to) and whether the iteration
\* skipped a rejected package (skipped).
scan_matches(it, block, cache, pos) ==
    LET iteration(to, skipped) ==
            [from |-> pos, to |-> to, skipped |-> skipped]
        continue(to, skipped, rest) ==
            [it |-> rest.it, err |-> rest.err,
             iterations |-> <<iteration(to, skipped)>> \o rest.iterations]
        again(it2, cache2, to, skipped) ==
            continue(to, skipped, scan_matches(it2, block, cache2, to))
        fail(mat, err) ==
            [it |-> it, err |-> err,
             iterations |-> <<iteration(mat.end, FALSE)>>]
        attributed(mat, entry, fp) ==
            IF fp.err # None THEN fail(mat, fp.err)
            ELSE IF fp.val = None
            THEN again([it EXCEPT !.found_without_package = Append(@, entry)],
                       fp.cache, mat.end, FALSE)
            ELSE again([it EXCEPT !.found =
                           Append(@, [pkg |-> fp.val[1].pkg, entry |-> entry])],
                       fp.cache, mat.end, FALSE)
        decoded(mat, bytes, fp, entry) ==
            IF entry = None
            THEN fail(mat, Some(EntryParse(bytes)))
            ELSE IF ~exact_match(it, entry[1])
            THEN again(it, fp.cache, mat.end, FALSE)
            ELSE attributed(mat, entry[1],
                            find_package(block, fp.cache, mat.end))
        filtered(mat, bytes, fp) ==
            IF fp.err # None THEN fail(mat, fp.err)
            ELSE IF /\ fp.val # None
                    /\ ~should_search_package(it, fp.val[1].pkg)
            THEN again(it, fp.cache, skip_to(mat, fp.val[1].end), TRUE)
            ELSE decoded(mat, bytes, fp, DecodeEntry(bytes))
        matched(mat, bytes) ==
            IF is_package_entry(bytes)
            THEN again(it, cache, mat.end, FALSE)
            ELSE filtered(mat, bytes, find_package(block, cache, mat.end))
        searched(m) ==
            IF m = None THEN [it |-> it, err |-> None, iterations |-> <<>>]
            ELSE matched(m[1], entry_bytes(block, m[1]))
    IN  searched(read_match(it.pattern, block, pos))

\* One iteration of the loop of fill_buf on a decoded, non-empty block: the
\* iterator, an error, and what was done with the block (the block, the
\* offset its scan started at, the iterations of the scan, the number of
\* found entries afterwards).
process_block(it, block) ==
    LET scanned(first, scan) ==
            [it |-> scan.it, err |-> scan.err,
             blocks |-> <<[block |-> block, start |-> first.pos,
                           iterations |-> scan.iterations,
                           found |-> Len(scan.it.found)]>>]
        after(first) ==
            IF first.err # None
            THEN [it |-> first.it, err |-> first.err,
                  blocks |-> <<[block |-> block, start |-> 0,
                                iterations |-> <<>>,
                                found |-> Len(first.it.found)]>>]
            ELSE scanned(first,
                         scan_matches(first.it, block, first.cache, first.pos))
    IN  after(attribute_orphans(it, block,
                [cached_package |-> None, no_more_package |-> FALSE]))

\* Decoder::decode: the decoder hands out the records that fit its buffer,
\* at least one, so a block may end after any record; Blocks is the set of
\* numbers of frames the next block may hold (empty at the end of input).
Blocks(frames, reader) == 1..(Len(frames) - reader.pos)

\* Lines 292-297: what the end of the input (an empty block) makes of the
\* iterator.
end_of_input(it) == [it |-> it, err |-> None, blocks |-> <<>>]

RECURSIVE fill_buf(_, _)

\* fill_buf that decodes a block whether found entries are buffered or not.
fill_buf_eager(frames, it) ==
    LET processed(done) ==
            IF done.err # None THEN {done}
            ELSE {[later EXCEPT !.blocks = done.blocks \o @]
                    : later \in fill_buf(frames, done.it)}
        decode(n, dec) ==
            IF ~dec.ok
            THEN {[it |-> it, err |-> Some(Frcode), blocks |-> <<>>]}
            ELSE processed(process_block(
                    [it EXCEPT !.reader = [pos |-> it.reader.pos + n,
                                           last |-> dec.last]],
                    dec.block))
    IN  IF Blocks(frames, it.reader) = {} THEN {end_of_input(it)}
        ELSE UNION {decode(n, FrcodeDecode(frames, it.reader.pos,
                                           it.reader.last, n))
                    : n \in Blocks(frames, it.reader)}

\* ReaderIter::fill_buf: the set of its outcomes (iterator, error and the
\* blocks the call decoded, in order), one for every way the decoder may cut
\* the rest of the input into blocks.
fill_buf(frames, it) ==
    LET processed(done) ==
            IF done.err # None THEN {done}
            ELSE {[later EXCEPT !.blocks = done.blocks \o @]
                    : later \in fill_buf(frames, done.it)}
        decode(n, dec) ==
            IF ~dec.ok
            THEN {[it |-> it, err |-> Some(Frcode), blocks |-> <<>>]}
            ELSE processed(process_block(
                    [it EXCEPT !.reader = [pos |-> it.reader.pos + n,
                                           last |-> dec.last]],
                    dec.block))
    IN  IF it.found # <<>> THEN {[it |-> it, err |-> None, blocks |-> <<>>]}
        ELSE IF Blocks(frames, it.reader) = {} THEN {end_of_input(it)}
        ELSE UNION {decode(n, FrcodeDecode(frames, it.reader.pos,
                                           it.reader.last, n))
                    : n \in Blocks(frames, it.reader)}

\* ReaderIter::next_match and Iterator::next on one outcome of fill_buf: the
\* iterator afterwards, the value returned and the blocks decoded.
next(outcome) ==
    IF outcome.err # None
    THEN [it |-> outcome.it, blocks |-> outcome.blocks,
          item |-> [t |-> "Err", err |-> outcome.err[1]]]
    ELSE IF outcome.it.found = <<>>
    THEN [it |-> outcome.it, blocks |-> outcome.blocks,
          item |-> [t |-> "None"]]
    ELSE [it |-> [outcome.it EXCEPT !.found = SubSeq(@, 1, Len(@) - 1)],
          blocks |-> outcome.blocks,
          item |-> [t |-> "Ok",
                    pkg |-> outcome.it.found[Len(outcome.it.found)].pkg,
                    entry |-> outcome.it.found[Len(outcome.it.found)].entry]]

\* ------------------------------------------------------ the inputs
\* Store paths, file trees, database files found on disk and queries the
\* model draws its inputs from.

\* hash 1, name /a, attribute a.o, top-level
spA == StorePath(<<49>>, <<47, 97>>, <<97>>, <<111>>, TRUE)

\* hash 2, name b, attribute b.o, not top-level
spB == StorePath(<<50>>, <<98>>, <<98>>, <<111>>, FALSE)

StorePaths == {spA, spB}

\* /a, an executable of 7 bytes
eA == FileTreeEntry(<<47, 97>>, Regular(7, TRUE))

\* /b, a symlink to /a
eB == FileTreeEntry(<<47, 98>>, Symlink(<<47, 97>>))

\* /b/a, a directory of size 10
eC == FileTreeEntry(<<47, 98, 47, 97>>, Directory(10))

FileTrees == {{}, {eA}, {eA, eB}, {eB, eC}}

\* ^/a
PatAnchored == Concat(<<StartText, LiteralBytes(<<47, 97>>)>>)

\* /a
PatPlain == LiteralBytes(<<47, 97>>)

\* ^/ : matches every non-empty path, since a path starts with /
PatUniversal == Concat(<<StartText, LiteralBytes(<<47>>)>>)

\* the empty pattern, whose every match is zero-width
PatEmpty == Empty

Patterns == {PatAnchored, PatPlain, PatUniversal, PatEmpty}

\* --package a, or none
PackagePatterns == {None, Some(LiteralBytes(<<97>>))}

\* --hash 1, --hash 2, or none
Hashes == {None, Some(<<49>>), Some(<<50>>)}

\* Records of a file on disk that need not come from a Writer: the records
\* of /a and of package 1, a file record of unknown type, and a package
\* record whose payload is no store path.
DiskRecords ==
    {EncodeEntry(eA),
     <<PKG_TAG, NUL>> \o to_vec(spA),
     <<102, NUL, 55, 63, NUL, 47, 97>>,
     <<PKG_TAG, NUL, 123, 47, 97>>}

RECURSIVE SeqsUpTo(_, _)
SeqsUpTo(S, n) ==
    IF n = 0 THEN {<<>>}
    ELSE LET shorter == SeqsUpTo(S, n - 1)
         IN  shorter \cup {Append(q, x) : q \in shorter, x \in S}

\* Headers of files on disk: the header Writer::create writes, other magics,
\* other versions, and the version 1 stored big-endian.
DiskHeaders ==
    {FILE_MAGIC \o write_u64(U64(FORMAT_VERSION))}
    \cup {m \o write_u64(U64(v)) :
             m \in {<<78, 73, 88, 73>>, <<78, 73, 88, 88>>, <<110, 105, 120, 105>>,
                    <<73, 88, 73, 78>>, <<0, 0, 0, 0>>},
             v \in {0, 1, 2, 256}}
    \cup {m \o <<0, 0, 0, 0, 0, 0, 0, 1>> :
             m \in {<<78, 73, 88, 73>>, <<78, 73, 88, 88>>}}

\* The files found on disk: every header with a payload of at most one
\* record, and the header of Writer::create with every payload.
DiskFiles ==
    {[header |-> h, frames |-> FrcodeEncode(<<>>, recs)] :
        h \in DiskHeaders, recs \in SeqsUpTo(DiskRecords, 1)}
    \cup
    {[header |-> FILE_MAGIC \o write_u64(U64(FORMAT_VERSION)),
      frames |-> FrcodeEncode(<<>>, recs)] :
        recs \in SeqsUpTo(DiskRecords, MaxDiskRecords)}

\* ------------------------------------------------------------ the state

VARIABLES
    pc,       \* where the program is: "create", "write", "open", "query",
              \* "iterate", "failed"
    writer,   \* the Writer: None, or Some of its field writer, itself None
              \* or Some of the frames handed to the compressor
    file,     \* the database file: header bytes and the frames of the
              \* finalized compressed stream
    finalized,\* how many times the compressor was finished
    ret,      \* what Writer::finish returned: None before it returns
    added,    \* the (path, files) arguments of the add calls so far
    opened,   \* the result of Reader::open: None before the call
    iter,     \* the ReaderIter: None before Query::run
    results,  \* the values next() has returned so far
    call,     \* the last call of next(): the iterator it started from and
              \* the blocks it decoded, with the iterations of their scans
    locate    \* the run of nix-locate: None, or its arguments args, the set
              \* printed_attrs, the lines printed to stdout and its result

vars == <<pc, writer, file, finalized, ret, added, opened, iter, results,
          call, locate>>

NoFile == [header |-> <<>>, frames |-> <<>>]

\* Either no database exists yet and the program is about to create one, or
\* a file of unknown origin is on disk and the program is about to open it.
Init ==
    /\ writer = None
    /\ finalized = 0
    /\ ret = None
    /\ added = <<>>
    /\ opened = None
    /\ iter = None
    /\ results = <<>>
    /\ call = None
    /\ locate = None
    /\ \/ pc = "create" /\ file = NoFile
       \/ pc = "open" /\ file \in DiskFiles

\* ------------------------------------------------------------ the Writer

\* Writer::create
Create ==
    /\ pc = "create"
    /\ file' = [header |-> FILE_MAGIC \o write_u64(U64(FORMAT_VERSION)),
                frames |-> <<>>]
    /\ writer' = Some([writer |-> Some(<<>>)])
    /\ pc' = "write"
    /\ UNCHANGED <<finalized, ret, added, opened, iter, results, call, locate>>

\* AddRecords with the package record written as a header, before the
\* entries of the tree.
AddRecords_package_first(path, files) ==
    <<(<<PKG_TAG>> \o <<NUL>> \o to_vec(path))>>
    \o [k \in 1..Cardinality(files) |-> EncodeEntry(to_list(files)[k])]

\* The records one add call writes: the entries of the tree in path order,
\* then the footer of the encoder, the package record.
AddRecords(path, files) ==
    [k \in 1..Cardinality(files) |-> EncodeEntry(to_list(files)[k])]
    \o <<(<<PKG_TAG>> \o <<NUL>> \o to_vec(path))>>

\* Writer::add(path, files)
Add ==
    /\ pc = "write"
    /\ writer[1].writer # None
    /\ Len(added) < MaxAdds
    /\ \E path \in StorePaths, files \in FileTrees :
          /\ writer' = Some([writer |->
                Some(writer[1].writer[1]
                     \o FrcodeEncode(<<>>, AddRecords(path, files)))])
          /\ added' = Append(added, [path |-> path, files |-> files])
    /\ UNCHANGED <<pc, file, finalized, ret, opened, iter, results, call, locate>>

\* What the file system answers to the writes of finish_encoder: every
\* write succeeds, or the flush of the BufWriter fails (line 76), or the
\* write of the end of the compressed stream fails (line 77).
IoOutcomes == {"ok", "flush_err", "finish_err"}

\* The bytes the compressor writes for a stream of frames: one byte for the
\* length of the shared prefix and the bytes of the suffix, for each frame.
RECURSIVE CompressedSize(_)
CompressedSize(frames) ==
    IF frames = <<>> THEN 0
    ELSE 1 + Len(Head(frames).suffix) + CompressedSize(Tail(frames))

\* Writer::finish_encoder under the outcome io: the encoder is taken out of
\* the Writer (line 75); into_inner flushes the buffer and on failure
\* returns the error with the encoder dropped unfinished (line 76);
\* encoder.finish() completes the compressed stream in the file (line 77).
finish_encoder(w, io) ==
    [writer |-> [writer |-> None],
     finish_calls |-> IF io = "flush_err" THEN 0 ELSE 1,
     result |-> IF io = "ok"
                THEN [t |-> "Ok", frames |-> w.writer[1]]
                ELSE [t |-> "Err"]]

\* seek_current counting the bytes the compressor wrote only.
seek_current_payload_only(header, frames) == CompressedSize(frames)

\* file.seek(SeekFrom::Current(0)) on the file handle the header and the
\* compressed stream were written through: the number of bytes written.
seek_current(header, frames) == Len(header) + CompressedSize(frames)

\* Writer::finish, with the drop of the Writer at its end, which finds the
\* encoder taken and does nothing.
Finish ==
    /\ pc = "write"
    /\ writer[1].writer # None
    /\ \E io \in IoOutcomes :
          LET fin == finish_encoder(writer[1], io)
          IN  /\ writer' = Some(fin.writer)
              /\ finalized' = finalized + fin.finish_calls
              /\ IF fin.result.t = "Ok"
                 THEN /\ file' = [file EXCEPT !.frames = fin.result.frames]
                      /\ ret' = Some([t |-> "Ok",
                                      size |-> seek_current(file.header,
                                                            fin.result.frames)])
                      /\ pc' = "open"
                 ELSE /\ ret' = Some([t |-> "Err"])
                      /\ pc' = "failed"
                      /\ UNCHANGED file
    /\ UNCHANGED <<added, opened, iter, results, call, locate>>

\* Drop for Writer, on a Writer that was never finished: finish_encoder is
\* called and its result unwrapped, so an error ends the program.
DropWriter ==
    /\ pc = "write"
    /\ writer[1].writer # None
    /\ \E io \in IoOutcomes :
          LET fin == finish_encoder(writer[1], io)
          IN  /\ writer' = Some(fin.writer)
              /\ finalized' = finalized + fin.finish_calls
              /\ IF fin.result.t = "Ok"
                 THEN /\ file' = [file EXCEPT !.frames = fin.result.frames]
                      /\ pc' = "open"
                 ELSE /\ pc' = "failed"
                      /\ UNCHANGED file
    /\ UNCHANGED <<ret, added, opened, iter, results, call, locate>>

\* ------------------------------------------------------------ the Reader

\* open checking the version before the magic.
open_version_first(header) ==
    LET magic == Slice(header, 0, 4)
        version == read_u64(Slice(header, 4, 12))
    IN  IF version # U64(FORMAT_VERSION)
        THEN [t |-> "Err", err |-> UnsupportedVersion(version)]
        ELSE IF magic # FILE_MAGIC
        THEN [t |-> "Err", err |-> UnsupportedFileType(magic)]
        ELSE [t |-> "Ok", reader |-> [pos |-> 0, last |-> <<>>]]

\* Reader::open on the bytes of a file header.
open(header) ==
    LET magic == Slice(header, 0, 4)
        version == read_u64(Slice(header, 4, 12))
    IN  IF magic # FILE_MAGIC
        THEN [t |-> "Err", err |-> UnsupportedFileType(magic)]
        ELSE IF version # U64(FORMAT_VERSION)
        THEN [t |-> "Err", err |-> UnsupportedVersion(version)]
        ELSE [t |-> "Ok", reader |-> [pos |-> 0, last |-> <<>>]]

Open ==
    /\ pc = "open"
    /\ opened' = Some(open(file.header))
    /\ pc' = IF open(file.header).t = "Ok" THEN "query" ELSE "failed"
    /\ UNCHANGED <<writer, file, finalized, ret, added, iter, results, call, locate>>

\* Reader::query, Query::package_pattern, Query::hash and Query::run, with
\* the regex drawn from regexes.
RunWith(regexes) ==
    /\ pc = "query"
    /\ \E exact_regex \in regexes, package_pattern \in PackagePatterns,
          hash \in Hashes :
          iter' = Some(run(opened[1].reader, exact_regex, package_pattern, hash))
    /\ pc' = "iterate"
    /\ UNCHANGED <<writer, file, finalized, ret, added, opened, results, call, locate>>

Run == RunWith(Patterns)

\* next() has returned None: the consumer's loop has ended.
Ended == results # <<>> /\ results[Len(results)].t = "None"

\* Iterator::next.  The consumer calls it until it returns None.
Next_ ==
    /\ pc = "iterate"
    /\ ~Ended
    /\ \E returned \in {next(outcome) : outcome \in fill_buf(file.frames, iter[1])} :
          /\ iter' = Some(returned.it)
          /\ results' = Append(results, returned.item)
          /\ call' = Some([it |-> iter[1], blocks |-> returned.blocks])
    /\ UNCHANGED <<pc, writer, file, finalized, ret, added, opened, locate>>

Next == Create \/ Add \/ Finish \/ DropWriter \/ Open \/ Run \/ Next_

Spec == Init /\ [][Next]_vars

\* -------------------------------------------- queries with nested regexes

\* The leaves of the expressions: ^, a start-of-line anchor, the literal a.
ExprLeaves == {StartText, StartLine, LiteralBytes(<<97>>)}

\* The expressions nested at most d deep: a leaf, a group or a repetition of
\* an expression, a concatenation or an alternation of an expression and a
\* leaf, in either order.
RECURSIVE Exprs(_)
Exprs(d) ==
    IF d = 0 THEN ExprLeaves
    ELSE LET inner == Exprs(d - 1)
             pairs == {<<x, y>> : x \in inner, y \in ExprLeaves}
                      \cup {<<y, x>> : x \in inner, y \in ExprLeaves}
         IN  ExprLeaves
             \cup {Group(x) : x \in inner}
             \cup {Repeat(x) : x \in inner}
             \cup {Concat(es) : es \in pairs}
             \cup {Alternate(es) : es \in pairs}

\* A database with a header and an empty stream has been opened.
QueryInit ==
    /\ pc = "query"
    /\ writer = None
    /\ file = [header |-> FILE_MAGIC \o write_u64(U64(FORMAT_VERSION)),
               frames |-> <<>>]
    /\ finalized = 0
    /\ ret = None
    /\ added = <<>>
    /\ opened = Some(open(FILE_MAGIC \o write_u64(U64(FORMAT_VERSION))))
    /\ iter = None
    /\ results = <<>>
    /\ call = None
    /\ locate = None

\* Query::run on a regex of any shape up to MaxDepth.
RunExprs == RunWith(Exprs(MaxDepth))

QueryNext == RunExprs \/ Next_

QuerySpec == QueryInit /\ [][QueryNext]_vars

\* ------------------------------------------------------------ nix-locate
\* The front-end: locate() opens the database, runs the query and prints
\* the results that pass its filter.

\* files::ALL_FILE_TYPES and the letters of --type: x and r for a regular
\* file that is or is not executable, s for a symlink, d for a directory.
ALL_FILE_TYPES == {"x", "r", "s", "d"}

\* FileNode::get_type
get_type(node) ==
    CASE node.type = "Regular" -> IF node.executable THEN "x" ELSE "r"
      [] node.type = "Symlink" -> "s"
      [] node.type = "Directory" -> "d"

\* Regex::find_at: the leftmost match in text that starts at offset at or
\* later.  The patterns of the model have one match for a start offset; of
\* several the longest is taken.
find_at(re, text, at) ==
    LET starts == {i \in at..Len(text) : MatchEnds(re, text, 0, i) # {}}
    IN  IF starts = {} THEN None
        ELSE Some([start |-> Min(starts),
                   end |-> Max(MatchEnds(re, text, 0, Min(starts)))])

\* Regex::find_iter: the successive non-overlapping matches in text; after
\* an empty match the search goes on one byte later, and an empty match at
\* the end of the match before it is left out.
RECURSIVE find_iter(_, _, _, _)
find_iter(re, text, last_end, last_match) ==
    LET found(m) ==
            IF m.start = m.end /\ last_match = Some(m.end)
            THEN find_iter(re, text, m.end + 1, last_match)
            ELSE <<m>> \o find_iter(re, text,
                                    IF m.start = m.end THEN m.end + 1
                                    ELSE m.end,
                                    Some(m.end))
        searched(m) == IF m = None THEN <<>> ELSE found(m[1])
    IN  IF last_end > Len(text) THEN <<>>
        ELSE searched(find_at(re, text, last_end))

\* Lines 85-91: the conditions of the filter, m being the last match of the
\* pattern in the path.
conditions(args, m, store_path, entry) ==
    /\ ~args.group
          \/ Positions(entry.path, 47, m.end, Len(entry.path)) = {}
    /\ ~args.only_toplevel \/ store_path.origin.toplevel
    /\ \E t \in args.file_type : get_type(entry.node) = t

\* filter letting only entries through, as a filter on v.ok() would.
filter_drops_errors(args, v) ==
    /\ v.t = "Ok"
    /\ LET ms == find_iter(args.pattern, v.entry.path, 0, None)
       IN  conditions(args, ms[Len(ms)], v.pkg, v.entry)

\* Lines 78-93: the closure of the filter on a result v of the iterator:
\* an error passes (map_or(true, ...)), an entry passes if the conditions
\* hold of the last match of the pattern in its path.
filter(args, v) ==
    v.t = "Ok"
    => LET ms == find_iter(args.pattern, v.entry.path, 0, None)
       IN  conditions(args, ms[Len(ms)], v.pkg, v.entry)

\* Lines 107-115: attr.output, in parentheses for a package that is not
\* top-level.
attr_string(store_path) ==
    IF store_path.origin.toplevel
    THEN store_path.origin.attr \o <<46>> \o store_path.origin.output
    ELSE <<40>> \o store_path.origin.attr \o <<46>> \o store_path.origin.output
         \o <<41>>

\* print_minimal that never looks at printed_attrs.
print_minimal_every_time(loc, attr) ==
    [loc EXCEPT !.printed_attrs = @ \cup {attr},
                !.stdout = Append(@, [attr |-> attr])]

\* Lines 117-121: in minimal mode the attribute string is printed if it is
\* new to printed_attrs.
print_minimal(loc, attr) ==
    IF attr \in loc.printed_attrs THEN loc
    ELSE [loc EXCEPT !.printed_attrs = @ \cup {attr},
                     !.stdout = Append(@, [attr |-> attr])]

\* Lines 97-153: the body of the output loop on a result that passed the
\* filter.  A line is the attribute string alone in minimal mode, and else
\* the attribute string, the size, the type letter, the store path and the
\* path (colours are left out).
print(loc, store_path, entry) ==
    LET attr == attr_string(store_path)
        size == IF entry.node.type = "Symlink" THEN 0 ELSE entry.node.size
        typ == IF entry.node.type = "Regular"
               THEN (IF entry.node.executable THEN "x" ELSE "r")
               ELSE IF entry.node.type = "Directory" THEN "d" ELSE "s"
    IN  IF loc.args.minimal
        THEN print_minimal(loc, attr)
        ELSE [loc EXCEPT !.stdout =
                 Append(@, [attr |-> attr, size |-> size, typ |-> typ,
                            store_path |-> store_path, path |-> entry.path])]

\* The records of a sequence of add calls, as the Writer frames them.
RECURSIVE WrittenFrames(_)
WrittenFrames(adds) ==
    IF adds = <<>> THEN <<>>
    ELSE FrcodeEncode(<<>>, AddRecords(Head(adds).path, Head(adds).files))
         \o WrittenFrames(Tail(adds))

\* The add calls behind the databases nix-locate is run on.
LocateAdds ==
    {<<[path |-> spA, files |-> {eA, eB}], [path |-> spB, files |-> {eB, eC}]>>,
     <<[path |-> spB, files |-> {eB, eC}], [path |-> spA, files |-> {eA}]>>,
     <<[path |-> spA, files |-> {eB, eC}], [path |-> spA, files |-> {eA, eB}]>>,
     <<[path |-> spB, files |-> {eA, eB, eC}]>>}

\* The databases nix-locate is run on: written ones, one whose second
\* record is a file record of unknown type, and one with such a record
\* between two packages.
LocateFiles ==
    {[header |-> FILE_MAGIC \o write_u64(U64(FORMAT_VERSION)),
      frames |-> WrittenFrames(adds)] : adds \in LocateAdds}
    \cup {[header |-> FILE_MAGIC \o write_u64(U64(FORMAT_VERSION)),
           frames |-> FrcodeEncode(<<>>,
                         <<EncodeEntry(eA), <<102, NUL, 55, 63, NUL, 47, 97>>,
                           (<<PKG_TAG>> \o <<NUL>> \o to_vec(spA))>>)],
          [header |-> FILE_MAGIC \o write_u64(U64(FORMAT_VERSION)),
           frames |-> FrcodeEncode(<<>>,
                         <<EncodeEntry(eA),
                           (<<PKG_TAG>> \o <<NUL>> \o to_vec(spA)),
                           <<102, NUL, 55, 63, NUL, 47, 97>>,
                           EncodeEntry(eB),
                           (<<PKG_TAG>> \o <<NUL>> \o to_vec(spB))>>)]}

\* The arguments of nix-locate: the pattern, --no-group, --top-level,
\* --minimal and --type; --hash and --package are not given.
LocateArgs ==
    [pattern : Patterns, group : BOOLEAN, only_toplevel : BOOLEAN,
     minimal : BOOLEAN, file_type : {ALL_FILE_TYPES, {"d", "s"}},
     hash : {None}, package_pattern : {None}]

\* nix-locate has been started on a database.
LocateInit ==
    /\ pc = "locate"
    /\ writer = None
    /\ file \in LocateFiles
    /\ finalized = 0
    /\ ret = None
    /\ added = <<>>
    /\ opened = None
    /\ iter = None
    /\ results = <<>>
    /\ call = None
    /\ locate \in [args : LocateArgs, printed_attrs : {{}}, stdout : {<<>>},
                    result : {None}]

\* Error::ReadDatabase
ReadDatabase == [kind |-> "ReadDatabase"]

\* Lines 58-77: the database is opened and the query is run.
LocateOpen ==
    /\ pc = "locate"
    /\ opened' = Some(open(file.header))
    /\ IF open(file.header).t = "Err"
       THEN /\ locate' = [locate EXCEPT !.result =
                             Some([t |-> "Err", err |-> ReadDatabase])]
            /\ pc' = "failed"
            /\ UNCHANGED iter
       ELSE /\ iter' = Some(run(open(file.header).reader, locate.args.pattern,
                                locate.args.package_pattern, locate.args.hash))
            /\ pc' = "results"
            /\ UNCHANGED locate
    /\ UNCHANGED <<writer, file, finalized, ret, added, results, call>>

\* Lines 78-156: the output loop asks the filter for a result, the filter
\* asks the iterator.  An error ends the loop with ReadDatabase, None ends
\* it with Ok; an entry is tested by the filter, which fails its expect
\* when the pattern has no match in the path, and is printed if it passes.
LocatePull ==
    /\ pc = "results"
    /\ \E returned \in {next(outcome) : outcome \in fill_buf(file.frames, iter[1])} :
          /\ iter' = Some(returned.it)
          /\ results' = Append(results, returned.item)
          /\ call' = Some([it |-> iter[1], blocks |-> returned.blocks])
          /\ IF returned.item.t = "None"
             THEN /\ locate' = [locate EXCEPT !.result = Some([t |-> "Ok"])]
                  /\ pc' = "done"
             ELSE IF /\ returned.item.t = "Ok"
                     /\ find_iter(locate.args.pattern,
                                  returned.item.entry.path, 0, None) = <<>>
             THEN pc' = "panicked" /\ UNCHANGED locate
             ELSE IF ~filter(locate.args, returned.item)
             THEN pc' = pc /\ UNCHANGED locate
             ELSE IF returned.item.t = "Err"
             THEN /\ locate' = [locate EXCEPT !.result =
                                   Some([t |-> "Err", err |-> ReadDatabase])]
                  /\ pc' = "failed"
             ELSE /\ pc' = pc
                  /\ locate' = print(locate, returned.item.pkg,
                                     returned.item.entry)
    /\ UNCHANGED <<writer, file, finalized, ret, added, opened>>

LocateNext == LocateOpen \/ LocatePull

LocateSpec == LocateInit /\ [][LocateNext]_vars

\* ------------------------------------------------------------ properties
\* What the properties below speak of.

\* The file on disk was written and finalized by the Writer.
FromWriter == finalized = 1 /\ pc # "failed"

\* The records a stream of frames decodes to, in order.
Records(frames) ==
    LET block == FrcodeDecode(frames, 0, <<>>, Len(frames)).block
        ends == Positions(block, NL, 0, Len(block))
    IN  [k \in 1..Cardinality(ends) |->
            LET end == CHOOSE e \in ends :
                          Cardinality({x \in ends : x <= e}) = k
            IN  Slice(block, find_line_start(block, end), end)]

\* The records of the whole stream of the file, in order.
StreamRecords == Records(file.frames)

IsPackageRecord(record) ==
    Len(record) >= 2 /\ record[1] = PKG_TAG /\ record[2] = NUL

\* The store path of the first package record after the first pos records of
\* the stream (None when there is none, or it does not parse).
NextPackage(pos) ==
    LET at == {j \in (pos + 1)..Len(StreamRecords) :
                  IsPackageRecord(StreamRecords[j])}
    IN  IF at = {} THEN None
        ELSE from_slice(Slice(StreamRecords[Min(at)], 2,
                              Len(StreamRecords[Min(at)])))

OkItem(pkg, entry) == [t |-> "Ok", pkg |-> pkg, entry |-> entry]

AllItems == {OkItem(sp, e) : sp \in StorePaths, e \in UNION FileTrees}

\* How many times next() has returned item.
Yielded(item) == Cardinality({k \in DOMAIN results : results[k] = item})

\* How many times the pair of item was written: the add calls for its store
\* path whose tree holds its entry.
Written(item) ==
    Cardinality({k \in DOMAIN added :
                    added[k].path = item.pkg /\ item.entry \in added[k].files})

DistinctHashes ==
    \A j, k \in DOMAIN added :
        j # k => added[j].path.hash # added[k].path.hash

\* The query has no package-name and no package-hash bound.
Unbounded ==
    iter[1].package_name_pattern = None /\ iter[1].package_hash = None

\* The store path passes the bounds of the query.
PassesBounds(pkg) ==
    /\ iter[1].package_name_pattern # None
          => is_match(iter[1].package_name_pattern[1], pkg.name)
    /\ iter[1].package_hash # None => iter[1].package_hash[1] = pkg.hash

\* The user's regex matches the path.
PathMatches(path) == is_match(iter[1].exact_pattern, path)

\* C1: round trip.  Packages with distinct hashes written with add and
\* finished, then read with a regex that matches every path and no bounds
\* until next() returns None: the results are exactly the written pairs,
\* each as often as it was written.
C1_RoundTrip ==
    (/\ pc = "iterate" /\ Ended /\ FromWriter /\ DistinctHashes /\ Unbounded
     /\ \A e \in UNION FileTrees : PathMatches(e.path))
    => /\ \A k \in 1..(Len(results) - 1) : results[k] \in AllItems
       /\ \A item \in AllItems : Yielded(item) = Written(item)

C1_Witness ==
    /\ pc = "iterate" /\ Ended /\ FromWriter /\ DistinctHashes /\ Unbounded
    /\ \A e \in UNION FileTrees : PathMatches(e.path)
    /\ Len(added) = 2
    /\ Len(results) = 5

\* The yields of a run on a database the Writer wrote: no pair was yielded
\* more often than it was written, and once next() has returned None every
\* written pair whose path matches the regex and whose package passes the
\* bounds was yielded as often as it was written.
YieldsComplete ==
    (pc = "iterate" /\ FromWriter)
    => /\ \A item \in AllItems : Yielded(item) <= Written(item)
       /\ Ended =>
            \A item \in AllItems :
                (PathMatches(item.entry.path) /\ PassesBounds(item.pkg))
                => Yielded(item) = Written(item)

\* A call of next() on a database the Writer wrote returns None, or consumes
\* frames of the stream, or pops a found entry without reading the stream:
\* the calls before None are at most the frames plus the found entries.
NextProgresses ==
    (pc = "iterate" /\ pc' = "iterate" /\ FromWriter)
    => \/ Ended'
       \/ iter'[1].reader.pos > iter[1].reader.pos
       \/ /\ iter'[1].reader.pos = iter[1].reader.pos
          /\ Len(iter'[1].found) < Len(iter[1].found)

\* C2: completeness.  On a database the Writer wrote, whatever the blocks:
\* every written pair whose path matches the regex and whose package passes
\* the bounds has been yielded exactly as often as it was written when next()
\* returns None, no pair is ever yielded more often than it was written, and
\* every call of next() before None makes progress towards the end.
C2_Complete == []YieldsComplete /\ [][NextProgresses]_vars

\* A run has ended with a hash bound that one package with a matching file
\* passes and another one fails.
C2_Witness ==
    /\ pc = "iterate" /\ Ended /\ FromWriter
    /\ iter[1].package_hash # None
    /\ iter[1].exact_pattern = PatPlain
    /\ Written(OkItem(spB, eA)) = 1
    /\ Yielded(OkItem(spA, eA)) = 1

\* C3: soundness.  Every Ok result has a path the user's regex matches.
C3_Sound ==
    \A k \in DOMAIN results :
        results[k].t = "Ok" => PathMatches(results[k].entry.path)

\* A record that only the rewritten pattern matches was scanned, under no
\* bounds, and the run has ended.
C3_Witness ==
    /\ pc = "iterate" /\ Ended /\ Unbounded
    /\ iter[1].exact_pattern = PatAnchored
    /\ \E k \in DOMAIN StreamRecords :
          /\ is_match(iter[1].pattern, StreamRecords[k])
          /\ DecodeEntry(StreamRecords[k]) # None
          /\ ~PathMatches(DecodeEntry(StreamRecords[k])[1].path)
    /\ \E k \in DOMAIN results : results[k].t = "Ok"

\* C4: orphan attribution.  When next() is called with entries waiting for
\* their package and nothing else buffered, on a database the Writer wrote
\* and with the owner passing the bounds, the call pairs every waiting
\* entry with the package of the first package record not yet decoded: the
\* entries found by the call begin with these pairs, one for each waiting
\* entry, in order.
C4_OrphanAttribution ==
    [][(/\ pc = "iterate" /\ FromWriter /\ ~Ended
        /\ iter[1].found = <<>>
        /\ iter[1].found_without_package # <<>>
        /\ NextPackage(iter[1].reader.pos) # None
        /\ PassesBounds(NextPackage(iter[1].reader.pos)[1]))
       => LET waiting == iter[1].found_without_package
              owner == NextPackage(iter[1].reader.pos)[1]
              last == results'[Len(results')]
              got == iter'[1].found \o <<last>>
          IN  /\ last.t = "Ok"
              /\ Len(got) >= Len(waiting)
              /\ \A k \in DOMAIN waiting :
                    /\ got[k].pkg = owner
                    /\ got[k].entry = waiting[k]
      ]_vars

\* Entries wait for their package between two calls of next().
C4_Witness ==
    /\ pc = "iterate" /\ FromWriter /\ ~Ended
    /\ iter[1].found = <<>>
    /\ Len(iter[1].found_without_package) = 2
    /\ PassesBounds(NextPackage(iter[1].reader.pos)[1])
    /\ iter[1].package_name_pattern # None

\* What the query of the iterator yields without its two bounds when the
\* whole stream is decoded as one block.
UnboundedFound ==
    process_block(
        run([pos |-> 0, last |-> <<>>], iter[1].exact_pattern, None, None),
        FrcodeDecode(file.frames, 0, <<>>, Len(file.frames)).block).it.found

\* How many times item is among the found entries.
CountIn(found, item) ==
    Cardinality({k \in DOMAIN found :
                    OkItem(found[k].pkg, found[k].entry) = item})

\* How many times the query without bounds yields item.
UnboundedYield(item) == CountIn(UnboundedFound, item)

\* C5: filter composition.  On a database the Writer wrote, whatever the
\* blocks, once next() has returned None: a pair whose store path passes the
\* name and hash bounds was yielded as often as the query without bounds
\* yields it, and a pair whose store path fails a bound was never yielded.
C5_FilterComposition ==
    (pc = "iterate" /\ Ended /\ FromWriter)
    => LET unbounded == UnboundedFound
       IN  \A item \in AllItems :
              Yielded(item) =
                 IF PassesBounds(item.pkg) THEN CountIn(unbounded, item)
                 ELSE 0

\* A run with both bounds has ended: a package passed them and its match
\* was yielded, another package with a match failed them.
C5_Witness ==
    /\ pc = "iterate" /\ Ended /\ FromWriter
    /\ iter[1].package_hash # None
    /\ iter[1].package_name_pattern # None
    /\ \E item \in AllItems : UnboundedYield(item) > 0 /\ ~PassesBounds(item.pkg)
    /\ \E item \in AllItems : Yielded(item) > 0

\* C6: a package record is never surfaced.  Every Ok result is the entry of
\* a file record of the stream, and on a database the Writer wrote no call
\* of next() returns an error: a package record that the scan pattern
\* matches is passed over.
C6_NoPackageRecordSurfaced ==
    pc = "iterate"
    => \A k \in DOMAIN results :
          /\ results[k].t = "Ok"
                => \E j \in DOMAIN StreamRecords :
                      /\ ~IsPackageRecord(StreamRecords[j])
                      /\ StreamRecords[j] = EncodeEntry(results[k].entry)
          /\ FromWriter => results[k].t # "Err"

\* A run without bounds has ended whose pattern matches the bytes of a
\* package record of the stream.
C6_Witness ==
    /\ pc = "iterate" /\ Ended /\ FromWriter /\ Unbounded
    /\ iter[1].exact_pattern = PatPlain
    /\ \E j \in DOMAIN StreamRecords :
          /\ IsPackageRecord(StreamRecords[j])
          /\ is_match(iter[1].pattern, StreamRecords[j])
    /\ \E k \in DOMAIN results : results[k].t = "Ok"

\* C7: the end of the stream with entries still waiting for their package
\* is reported as MissingPackageEntry: next() never returns None while
\* entries wait.
C7_MissingPackageEntry ==
    (pc = "iterate" /\ Ended) => iter[1].found_without_package = <<>>

\* C8: an error stops the iterator: after next() has returned an error, no
\* later call returns an entry, neither one found earlier in the same block
\* nor one of a later block.
C8_ErrorStops ==
    \A j, k \in DOMAIN results :
        (j < k /\ results[j].t = "Err") => results[k].t # "Ok"

\* C9: on a file whose first 4 bytes are not the magic, Reader::open fails
\* with UnsupportedFileType of these 4 bytes, whatever follows them.
C9_Magic ==
    (opened # None /\ Slice(file.header, 0, 4) # <<78, 73, 88, 73>>)
    => opened[1] = [t |-> "Err",
                    err |-> [kind |-> "UnsupportedFileType",
                             magic |-> Slice(file.header, 0, 4)]]

\* A file with a wrong magic and a version other than 1 was opened.
C9_Witness ==
    /\ opened # None
    /\ Slice(file.header, 0, 4) = <<78, 73, 88, 88>>
    /\ Slice(file.header, 4, 12) = <<2, 0, 0, 0, 0, 0, 0, 0>>
    /\ file.frames # <<>>

\* C10: on a file that starts with the magic, Reader::open fails with
\* UnsupportedVersion(v), v the little-endian value of the next 8 bytes,
\* exactly when these bytes are not 1, 0, 0, 0, 0, 0, 0, 0; and it succeeds
\* on every file the Writer created.
C10_Version ==
    /\ (opened # None /\ Slice(file.header, 0, 4) = <<78, 73, 88, 73>>)
       => IF Slice(file.header, 4, 12) = <<1, 0, 0, 0, 0, 0, 0, 0>>
          THEN opened[1].t = "Ok"
          ELSE /\ opened[1].t = "Err"
               /\ opened[1].err.kind = "UnsupportedVersion"
               /\ \A v \in 0..300 :
                     Slice(file.header, 4, 12)
                        = <<v % 256, v \div 256, 0, 0, 0, 0, 0, 0>>
                     => opened[1].err.version = <<v, 0, 0>>
               /\ Slice(file.header, 4, 12) = <<0, 0, 0, 0, 0, 0, 0, 1>>
                     => opened[1].err.version = <<0, 0, 256>>
    /\ (opened # None /\ FromWriter) => opened[1].t = "Ok"

\* A file with the magic and the version 1 stored big-endian was opened.
C10_Witness ==
    /\ opened # None
    /\ file.header = <<78, 73, 88, 73, 0, 0, 0, 0, 0, 0, 0, 1>>

\* The Writer has been finished or dropped: its encoder is taken.
WriterGone == writer # None /\ writer[1].writer = None

\* C11: Writer finalization.  Once the Writer has been finished or dropped,
\* whatever adds came before and whether finish returned an error or not,
\* the compressor has been finalized exactly once.
C11_FinalizedOnce == WriterGone => finalized = 1

\* The compressor is never finalized twice, and it is finalized once the
\* Writer is gone unless the flush of its buffer failed.
C11_AtMostOnce ==
    /\ finalized <= 1
    /\ (WriterGone /\ pc # "failed") => finalized = 1

\* The Writer is open: add may be called.
WriterOpen == writer # None /\ writer[1].writer # None

\* The records handed to the compressor by the open Writer, in order.
WriterRecords == Records(writer[1].writer[1])

\* The position in WriterRecords of the k-th package record (0 for k = 0).
PackageAt(k) ==
    IF k = 0 THEN 0
    ELSE CHOOSE j \in DOMAIN WriterRecords :
            /\ IsPackageRecord(WriterRecords[j])
            /\ Cardinality({i \in 1..j : IsPackageRecord(WriterRecords[i])}) = k

\* C12: stream layout.  After any sequence of add calls the stream holds as
\* many package records as there were calls and ends with one; the k-th
\* package record carries the store path of the k-th call, and the records
\* between it and the package record before it are the file records of the
\* entries of the k-th call's tree, each once, in increasing path order.
C12_StreamLayout ==
    WriterOpen
    => /\ Cardinality({j \in DOMAIN WriterRecords :
                          IsPackageRecord(WriterRecords[j])}) = Len(added)
       /\ WriterRecords # <<>>
             => IsPackageRecord(WriterRecords[Len(WriterRecords)])
       /\ \A k \in DOMAIN added :
             LET lo == PackageAt(k - 1)
                 hi == PackageAt(k)
             IN  /\ from_slice(Slice(WriterRecords[hi], 2,
                                     Len(WriterRecords[hi])))
                       = Some(added[k].path)
                 /\ hi - lo - 1 = Cardinality(added[k].files)
                 /\ \A j \in (lo + 1)..(hi - 1) :
                       /\ DecodeEntry(WriterRecords[j]) # None
                       /\ DecodeEntry(WriterRecords[j])[1] \in added[k].files
                 /\ \A j \in (lo + 1)..(hi - 2) :
                       BytesLess(DecodeEntry(WriterRecords[j])[1].path,
                                 DecodeEntry(WriterRecords[j + 1])[1].path)

\* Two packages were added, the second with a tree whose paths sort before
\* paths of the first.
C12_Witness ==
    /\ WriterOpen
    /\ Len(added) = 2
    /\ added[1].files = {eB, eC}
    /\ added[2].files = {eA, eB}

\* The expression holds a start-of-text anchor.
RECURSIVE HasStartText(_)
HasStartText(e) ==
    CASE e.t = "StartText" -> TRUE
      [] e.t \in {"Group", "Repeat"} -> HasStartText(e.e)
      [] e.t \in {"Concat", "Alternate"} ->
            \E k \in DOMAIN e.es : HasStartText(e.es[k])
      [] OTHER -> FALSE

\* The expression with every literal NUL byte turned into a start-of-text
\* anchor: the inverse of the rewriting on expressions that hold no NUL.
RECURSIVE RestoreAnchors(_)
RestoreAnchors(e) ==
    CASE e = LiteralBytes(<<NUL>>) -> StartText
      [] e.t \in {"Group", "Repeat"} -> [e EXCEPT !.e = RestoreAnchors(e.e)]
      [] e.t \in {"Concat", "Alternate"} ->
            [e EXCEPT !.es = [k \in DOMAIN e.es |-> RestoreAnchors(e.es[k])]]
      [] OTHER -> e

\* C13: regex rewriting.  The scan pattern of Query::run holds no
\* start-of-text anchor; turning its literal NUL bytes back into anchors
\* gives the user's regex, so a NUL stands where each anchor stood and no
\* other node differs; a regex without such an anchor is its own pattern.
C13_Rewriting ==
    iter # None
    => /\ ~HasStartText(iter[1].pattern)
       /\ RestoreAnchors(iter[1].pattern) = iter[1].exact_pattern
       /\ ~HasStartText(iter[1].exact_pattern)
             => iter[1].pattern = iter[1].exact_pattern

\* Query::run was called on (a|(^)*): the anchor is inside a repetition
\* inside an alternation.
C13_Witness ==
    /\ iter # None
    /\ iter[1].exact_pattern
          = Alternate(<<LiteralBytes(<<97>>), Repeat(StartText)>>)
    /\ iter[1].pattern
          = Alternate(<<LiteralBytes(<<97>>), Repeat(LiteralBytes(<<NUL>>))>>)

\* The regex has a match on the path that is not the empty string.
HasNonEmptyMatch(e, path) ==
    \E i \in 0..Len(path) : \E end \in MatchEnds(e, path, 0, i) : end > i

\* C14: a zero-width match is not emitted.  Every entry next() returns has
\* a path on which the user's regex matches more than the empty string.
C14_NoZeroWidth ==
    iter # None
    => \A k \in DOMAIN results :
          results[k].t = "Ok"
          => HasNonEmptyMatch(iter[1].exact_pattern, results[k].entry.path)

\* The record of the block that ends at offset end (its terminator is the
\* byte before end).
RecordEndingAt(block, end) ==
    Slice(block, find_line_start(block, end - 1), end - 1)

\* C15: termination of a step.  In every call of next(), each block the
\* call decoded is not empty and took at least one frame of the input, and
\* within a block every iteration of the scan starts where the one before
\* ended, ends at a larger offset within the block, and after the skip of a
\* rejected package ends at the end of a package record: the scan of a
\* block has at most as many iterations as the block has bytes.
C15_StepTerminates ==
    call # None
    => /\ Len(call[1].blocks)
             <= iter[1].reader.pos - call[1].it.reader.pos
       /\ \A b \in DOMAIN call[1].blocks :
             LET block == call[1].blocks[b].block
                 its == call[1].blocks[b].iterations
             IN  /\ block # <<>>
                 /\ Len(its) <= Len(block)
                 /\ \A k \in DOMAIN its :
                       /\ its[k].from = IF k = 1 THEN call[1].blocks[b].start
                                         ELSE its[k - 1].to
                       /\ its[k].from < its[k].to
                       /\ its[k].to <= Len(block)
                       /\ its[k].skipped
                             => IsPackageRecord(RecordEndingAt(block, its[k].to))

\* A call of next() with the empty regex, whose every match is zero-width,
\* decoded two blocks or more and skipped a rejected package in one.
C15_Witness ==
    /\ call # None
    /\ call[1].it.exact_pattern = PatEmpty
    /\ Len(call[1].blocks) >= 2
    /\ \E b \in DOMAIN call[1].blocks :
          /\ Len(call[1].blocks[b].iterations) >= 2
          /\ \E k \in DOMAIN call[1].blocks[b].iterations :
                call[1].blocks[b].iterations[k].skipped

\* C16: the value of finish.  When Writer::finish returns Ok, its value is
\* the size of the file: the 4 bytes of the magic, the 8 bytes of the
\* version and the bytes of the finalized compressed stream.
C16_FinishSize ==
    (ret # None /\ ret[1].t = "Ok")
    => /\ ret[1].size = 4 + 8 + CompressedSize(file.frames)
       /\ ret[1].size >= 12
       /\ finalized = 1

\* finish has returned Ok after two add calls that wrote records.
C16_Witness ==
    /\ ret # None /\ ret[1].t = "Ok"
    /\ Len(added) = 2
    /\ Len(file.frames) >= 3

\* The results of the iterator so far that are entries.
OkResults == SelectSeq(results, LAMBDA r : r.t = "Ok")

\* The offset at which the last component of the path starts: after its
\* last /.
LastComponentStart(path) ==
    IF Positions(path, 47, 0, Len(path)) = {} THEN 0
    ELSE Max(Positions(path, 47, 0, Len(path))) + 1

\* The end of the last of the successive matches of the pattern in the path.
LastMatchEnd(path) ==
    LET ms == find_iter(locate.args.pattern, path, 0, None)
    IN  ms[Len(ms)].end

\* The result passes --top-level and --type.
OtherConditions(r) ==
    /\ locate.args.only_toplevel => r.pkg.origin.toplevel
    /\ get_type(r.entry.node) \in locate.args.file_type

\* The result is to be printed: with grouping, the last match of the pattern
\* ends in the last component of the path or with the / before it.
Shown(r) ==
    /\ locate.args.group
          => LastMatchEnd(r.entry.path) >= LastComponentStart(r.entry.path)
    /\ OtherConditions(r)

\* The store paths and paths of the lines printed, in order.
PrintedPairs ==
    [k \in DOMAIN locate.stdout |->
        [pkg |-> locate.stdout[k].store_path, path |-> locate.stdout[k].path]]

\* The store paths and paths of the results to be printed, in order.
ShownPairs ==
    LET shown == SelectSeq(OkResults, Shown)
    IN  [k \in DOMAIN shown |->
            [pkg |-> shown[k].pkg, path |-> shown[k].entry.path]]

\* What the filter does: without --minimal the lines printed are, in order,
\* the results that pass --top-level and --type and, unless --no-group is
\* given, whose path has no / after the end of the last match of the
\* pattern.
PrintsShown ==
    (locate # None /\ ~locate.args.minimal) => PrintedPairs = ShownPairs

\* The pattern has a match in the path that holds a byte of the last
\* component, or an empty match inside the last component or at its ends.
MatchesLastComponent(pattern, path) ==
    \E i \in 0..Len(path) : \E end \in MatchEnds(pattern, path, 0, i) :
        \/ end > LastComponentStart(path)
        \/ end = i /\ i >= LastComponentStart(path)

\* C17: front-end grouping.  Unless --no-group is given, a result is printed
\* only if the pattern matches some part of the last component of its path;
\* with --no-group every result that passes the other conditions is printed.
C17_Grouping ==
    (locate # None /\ ~locate.args.minimal)
    => /\ locate.args.group
             => \A k \in DOMAIN locate.stdout :
                   MatchesLastComponent(locate.args.pattern,
                                        locate.stdout[k].path)
       /\ ~locate.args.group
             => Len(locate.stdout)
                   = Len(SelectSeq(OkResults, OtherConditions))

\* The attribute strings of the results that pass the filter, in order.
ShownAttrs ==
    LET shown == SelectSeq(OkResults, Shown)
    IN  [k \in DOMAIN shown |-> attr_string(shown[k].pkg)]

\* The first result that passes the filter and carries the attribute string.
FirstWith(attr) == Min({k \in DOMAIN ShownAttrs : ShownAttrs[k] = attr})

\* C18: minimal mode.  At every point of the output loop the lines printed
\* are the attribute strings of the results that passed the filter so far,
\* each once, in the order of the first result that carries each: a string
\* is printed when its first result arrives and never again.
C18_MinimalOnce ==
    (locate # None /\ locate.args.minimal)
    => /\ {locate.stdout[k].attr : k \in DOMAIN locate.stdout}
             = {ShownAttrs[k] : k \in DOMAIN ShownAttrs}
       /\ \A i, j \in DOMAIN locate.stdout :
             i < j => /\ locate.stdout[i].attr # locate.stdout[j].attr
                      /\ FirstWith(locate.stdout[i].attr)
                            < FirstWith(locate.stdout[j].attr)

\* A minimal run has ended with four results of two packages, and two
\* lines were printed.
C18_Witness ==
    /\ pc = "done" /\ locate.args.minimal
    /\ Len(SelectSeq(OkResults, Shown)) = 4
    /\ Len(locate.stdout) = 2

\* The offset at which the scan of a decoded block ended.
ScanEnd(b) ==
    IF b.iterations = <<>> THEN b.start
    ELSE b.iterations[Len(b.iterations)].to

RECURSIVE Entered(_)
Entered(b) ==
    IF b = 1 THEN call[1].it
    ELSE process_block(Entered(b - 1), call[1].blocks[b - 1].block).it

\* The first package record of a block, and the package it holds.
FirstPackage(block) == read_match(package_entry_pattern, block, 0)
PackageOf(block, mat) == from_slice(package_json(block, mat[1]))

\* Entries without a package are pending and the bounds reject the first
\* package of the block.
RejectedFirst(it, block) ==
    /\ it.found_without_package # <<>>
    /\ FirstPackage(block) # None
    /\ PackageOf(block, FirstPackage(block)) # None
    /\ ~should_search_package(it, PackageOf(block, FirstPackage(block))[1])

\* The iteration of the scan ended with an entry pushed: it skipped nothing
\* and its record is a file record that decodes and matches the regex.
Yielding(it, block, iteration) ==
    /\ ~iteration.skipped
    /\ ~is_package_entry(RecordEndingAt(block, iteration.to))
    /\ DecodeEntry(RecordEndingAt(block, iteration.to)) # None
    /\ exact_match(it, DecodeEntry(RecordEndingAt(block, iteration.to))[1])

\* The offsets at or after from at which a record of the block starts.
RecordStarts(block, from) ==
    {from} \cup {i + 1 : i \in Positions(block, NL, from, Len(block))}

\* The pattern matches a file record at or after offset p whose package the
\* bounds do not reject (or that has no package in the block).
Searchable(it, block, p) ==
    LET m == read_match(it.pattern, block, p)
        pm(mat) == read_match(package_entry_pattern, block, mat.end)
        pkg(mat) == PackageOf(block, pm(mat))
    IN  /\ m # None
        /\ ~is_package_entry(entry_bytes(block, m[1]))
        /\ \/ pm(m[1]) = None
           \/ /\ pkg(m[1]) # None
              /\ should_search_package(it, pkg(m[1])[1])

\* C20: pending orphans and a rejected first package.  When a block is
\* entered with entries without a package pending and the bounds reject the
\* first package record of the block, the scan of the block starts right
\* after that package record; unless the block fails, the entries found
\* and left pending after it are exactly those its own scan pushed, none
\* carries the rejected package, and every later record the pattern matches
\* in a package that is not rejected is visited by the scan.
C20_RejectedFirstPackage ==
    call # None
    => \A b \in DOMAIN call[1].blocks :
          LET block == call[1].blocks[b].block
              its == call[1].blocks[b].iterations
              before == Entered(b)
              out == process_block(before, block)
              first == FirstPackage(block)
          IN  RejectedFirst(before, block)
              => /\ call[1].blocks[b].start = first[1].end
                 /\ out.err = None
                       => /\ Len(out.it.found)
                               + Len(out.it.found_without_package)
                             = Len(before.found)
                               + Cardinality({k \in DOMAIN its :
                                    Yielding(before, block, its[k])})
                          /\ \A k \in DOMAIN out.it.found :
                                out.it.found[k].pkg
                                  # PackageOf(block, first)[1]
                          /\ \A p \in RecordStarts(block, first[1].end) :
                                Searchable(before, block, p)
                                => \E k \in DOMAIN its :
                                      /\ ~its[k].skipped
                                      /\ its[k].to
                                           = read_match(before.pattern,
                                                        block, p)[1].end

\* A call of next() entered a block with an entry pending whose first
\* package the bounds reject, and found an entry of a later package of the
\* same block.
C20_Witness ==
    /\ call # None
    /\ \E b \in DOMAIN call[1].blocks :
          /\ RejectedFirst(Entered(b), call[1].blocks[b].block)
          /\ call[1].blocks[b].found > 0
          /\ call[1].blocks[b].start > 0

\* The offsets of the find_package calls the scan of a block makes, in
\* order, from its k-th iteration on: for every match that is no package
\* record the end of the match (line 364), and once more when the entry is
\* pushed (line 381).
RECURSIVE LookupOffsets(_, _, _, _)
LookupOffsets(it, block, its, k) ==
    IF k > Len(its) THEN <<>>
    ELSE LET mat(m) == m[1]
             at(m) ==
                IF is_package_entry(entry_bytes(block, m)) THEN <<>>
                ELSE IF Yielding(it, block, its[k]) THEN <<m.end, m.end>>
                ELSE <<m.end>>
         IN  at(mat(read_match(it.pattern, block, its[k].from)))
                \o LookupOffsets(it, block, its, k + 1)

\* The offsets of all find_package calls of the last call of next() in its
\* b-th block: offset 0 when entries without a package are pending (line
\* 339), then those of the scan.
Lookups(b) ==
    (IF Entered(b).found_without_package # <<>> THEN <<0>> ELSE <<>>)
        \o LookupOffsets(Entered(b), call[1].blocks[b].block,
                         call[1].blocks[b].iterations, 1)

\* The uncached answer: a forward scan from item_end for the first package
\* record at or after it.
scan_forward(block, item_end) ==
    LET m == read_match(package_entry_pattern, block, item_end)
    IN  IF m = None THEN [err |-> None, val |-> None]
        ELSE IF PackageOf(block, m) = None
        THEN [err |-> Some(StorePathParse(package_json(block, m[1]))),
              val |-> None]
        ELSE [err |-> None,
              val |-> Some([pkg |-> PackageOf(block, m)[1],
                            end |-> m[1].end])]

\* From the k-th lookup on, with the cache the lookups before left, every
\* lookup answers as the forward scan does, up to the first that fails.
RECURSIVE CacheAgrees(_, _, _, _)
CacheAgrees(block, cache, offsets, k) ==
    IF k > Len(offsets) THEN TRUE
    ELSE LET agrees(r, scan) ==
                /\ r.val = scan.val
                /\ r.err = scan.err
                /\ \/ r.err # None
                   \/ CacheAgrees(block, r.cache, offsets, k + 1)
         IN  agrees(find_package(block, cache, offsets[k]),
                    scan_forward(block, offsets[k]))

\* The offsets never decrease.
NonDecreasing(offsets) ==
    \A k \in 1..(Len(offsets) - 1) : offsets[k] <= offsets[k + 1]

\* C21: package cache equivalence.  In every block of every call of next()
\* the offsets of the find_package calls never decrease, and each call,
\* answered from cached_package, by the no_more_package short-cut or by a
\* search, returns what an uncached forward scan from its offset returns:
\* the first package record at or after the offset and the offset of its
\* end, None when no package record follows in the block, or the
\* StorePathParse error of that record.
C21_CacheEquivalence ==
    call # None
    => \A b \in DOMAIN call[1].blocks :
          LET agree(offsets) ==
                  /\ NonDecreasing(offsets)
                  /\ CacheAgrees(call[1].blocks[b].block,
                                 [cached_package |-> None,
                                  no_more_package |-> FALSE],
                                 offsets, 1)
          IN  agree(Lookups(b))

\* A lookup at a larger offset follows one that cached a package and lies
\* before the end of that package.
CacheHit(block, offsets) ==
    \E i, j \in DOMAIN offsets :
        /\ offsets[i] < offsets[j]
        /\ scan_forward(block, offsets[i]).val # None
        /\ offsets[j] < scan_forward(block, offsets[i]).val[1].end

\* A lookup at a larger offset follows one that found no package record.
ShortCut(block, offsets) ==
    \E i, j \in DOMAIN offsets :
        /\ offsets[i] < offsets[j]
        /\ scan_forward(block, offsets[i]) = [err |-> None, val |-> None]

\* A lookup follows one that cached another package.
CacheReplaced(block, offsets) ==
    \E i, j \in DOMAIN offsets :
        /\ offsets[i] < offsets[j]
        /\ scan_forward(block, offsets[i]).val # None
        /\ scan_forward(block, offsets[j]).val # None
        /\ scan_forward(block, offsets[i]).val
             # scan_forward(block, offsets[j]).val

\* A call of next() decoded a block with a cache hit, a block where the
\* cached package was passed and replaced, and a block with the short-cut.
C21_Witness ==
    /\ call # None
    /\ \E b \in DOMAIN call[1].blocks :
          CacheHit(call[1].blocks[b].block, Lookups(b))
    /\ \E b \in DOMAIN call[1].blocks :
          ShortCut(call[1].blocks[b].block, Lookups(b))
    /\ \E b \in DOMAIN call[1].blocks :
          CacheReplaced(call[1].blocks[b].block, Lookups(b))

\* The match of the pattern in the k-th iteration of a scan, and the
\* record it hits.
HitMatch(it, block, its, k) == read_match(it.pattern, block, its[k].from)[1]
HitRecord(it, block, its, k) == entry_bytes(block, HitMatch(it, block, its, k))

\* The k-th iteration hits a record that is no package record and does not
\* decode as a FileTreeEntry.
HitsUndecodable(it, block, its, k) ==
    /\ ~is_package_entry(HitRecord(it, block, its, k))
    /\ DecodeEntry(HitRecord(it, block, its, k)) = None

\* The package record that owns the record hit in the k-th iteration: the
\* answer of the forward scan from the end of the match.
Owner(it, block, its, k) ==
    scan_forward(block, HitMatch(it, block, its, k).end)

\* The last call of next() returned the error err.
Failed(err) == results[Len(results)] = [t |-> "Err", err |-> err]

\* C22 as stated: every record hit by the pattern that is no package
\* record and does not decode makes the call of next() return EntryParse
\* of the bytes of the record, whatever the bounds are (granted that the
\* payload of the owning package record, if the block has it, parses).
C22_EntryParseAlways ==
    call # None
    => \A b \in DOMAIN call[1].blocks :
          LET block == call[1].blocks[b].block
              its == call[1].blocks[b].iterations
              hit(it) ==
                \A k \in DOMAIN its :
                    (/\ HitsUndecodable(it, block, its, k)
                     /\ Owner(it, block, its, k).err = None)
                    => Failed([kind |-> "EntryParse",
                               bytes |-> HitRecord(it, block, its, k)])
          IN  hit(Entered(b))

\* C22 amended: a record hit by the pattern that is no package record and
\* does not decode makes the call of next() return EntryParse of the bytes
\* of the record and ends the scan, unless the block holds the package
\* record that owns it and either the payload of that record does not
\* parse, and the call returns StorePathParse, or the bounds reject the
\* package, and the scan goes on after that package record without
\* decoding the record.
C22_EntryParseUnlessRejected ==
    call # None
    => \A b \in DOMAIN call[1].blocks :
          LET block == call[1].blocks[b].block
              its == call[1].blocks[b].iterations
              settled(it, k, owner) ==
                IF owner.err # None
                THEN /\ Failed(owner.err[1])
                     /\ k = Len(its)
                ELSE IF /\ owner.val # None
                        /\ ~should_search_package(it, owner.val[1].pkg)
                THEN /\ its[k].skipped
                     /\ its[k].to = owner.val[1].end
                ELSE /\ Failed([kind |-> "EntryParse",
                                bytes |-> HitRecord(it, block, its, k)])
                     /\ ~its[k].skipped
                     /\ k = Len(its)
                     /\ b = Len(call[1].blocks)
              hit(it) ==
                \A k \in DOMAIN its :
                    HitsUndecodable(it, block, its, k)
                    => settled(it, k, Owner(it, block, its, k))
          IN  hit(Entered(b))

\* A call of next() skipped a record that does not decode, in a package
\* the bounds reject, and then returned EntryParse for a later record that
\* no rejected package owns.
C22_Witness ==
    /\ call # None
    /\ results[Len(results)].t = "Err"
    /\ results[Len(results)].err.kind = "EntryParse"
    /\ \E b \in DOMAIN call[1].blocks :
          \E k \in DOMAIN call[1].blocks[b].iterations :
              /\ HitsUndecodable(Entered(b), call[1].blocks[b].block,
                                 call[1].blocks[b].iterations, k)
              /\ call[1].blocks[b].iterations[k].skipped

\* The store paths the package records of the stream parse to.
ParsedPackages ==
    {from_slice(Slice(StreamRecords[j], 2, Len(StreamRecords[j])))[1] :
        j \in {i \in DOMAIN StreamRecords :
                 /\ IsPackageRecord(StreamRecords[i])
                 /\ from_slice(Slice(StreamRecords[i], 2,
                                     Len(StreamRecords[i]))) # None}}

\* The payload of the first package record of the block that ends after
\* the offset from, a record being the bytes up to a newline.
PayloadAfter(block, from) ==
    LET ends == {e \in (from + 1)..Len(block) :
                    /\ block[e] = NL
                    /\ IsPackageRecord(RecordEndingAt(block, e))}
        payload(record) == Slice(record, 2, Len(record))
    IN  payload(RecordEndingAt(block, Min(ends)))

\* The block is entered with entries without a package pending and the
\* payload of its first package record does not parse.
UnparsedFirst(it, block) ==
    /\ it.found_without_package # <<>>
    /\ scan_forward(block, 0).err # None

\* C23: an owning package record that does not parse.  When the pattern
\* hits a file record, or entries without a package are pending at the
\* start of a block, and the payload of the package record that owns them
\* does not parse as a store path, the call of next() returns
\* StorePathParse of that payload and the scan ends there, the pending
\* entries staying unattributed; and the package of every entry found or
\* returned is one that a package record of the stream parses to.
C23_StorePathParse ==
    /\ call # None
       => \A b \in DOMAIN call[1].blocks :
             LET block == call[1].blocks[b].block
                 its == call[1].blocks[b].iterations
                 orphans(it) ==
                    UnparsedFirst(it, block)
                    => /\ Failed(scan_forward(block, 0).err[1])
                       /\ scan_forward(block, 0).err[1]
                             = [kind |-> "StorePathParse",
                                bytes |-> PayloadAfter(block, 0)]
                       /\ its = <<>>
                       /\ b = Len(call[1].blocks)
                       /\ iter[1].found_without_package
                             = it.found_without_package
                       /\ iter[1].found = <<>>
                 hit(it) ==
                    \A k \in DOMAIN its :
                        (/\ ~is_package_entry(HitRecord(it, block, its, k))
                         /\ Owner(it, block, its, k).err # None)
                        => /\ Failed(Owner(it, block, its, k).err[1])
                           /\ Owner(it, block, its, k).err[1]
                                = [kind |-> "StorePathParse",
                                   bytes |-> PayloadAfter(block,
                                       HitMatch(it, block, its, k).end)]
                           /\ k = Len(its)
                           /\ b = Len(call[1].blocks)
             IN  orphans(Entered(b)) /\ hit(Entered(b))
    /\ \A k \in DOMAIN results :
          results[k].t = "Ok" => results[k].pkg \in ParsedPackages
    /\ iter # None
       => \A k \in DOMAIN iter[1].found :
             iter[1].found[k].pkg \in ParsedPackages

\* A call of next() entered a block with an entry pending whose first
\* package record does not parse, and returned StorePathParse.
C23_Witness ==
    /\ call # None
    /\ Len(call[1].blocks) >= 1
    /\ UnparsedFirst(Entered(Len(call[1].blocks)),
                     call[1].blocks[Len(call[1].blocks)].block)
    /\ results[Len(results)].t = "Err"
    /\ results[Len(results)].err.kind = "StorePathParse"

\* The index in the stream of the last package record among the records
\* decoded so far, 0 when there is none.
LastPackageDecoded ==
    Max({0} \cup {j \in 1..iter[1].reader.pos :
                    IsPackageRecord(StreamRecords[j])})

\* Every entry without a package comes from a file record decoded after the
\* last package record decoded so far, and there are no more of them than
\* such records.
OrphansLocated ==
    iter # None
    => /\ Len(iter[1].found_without_package)
             <= iter[1].reader.pos - LastPackageDecoded
       /\ \A k \in DOMAIN iter[1].found_without_package :
             \E j \in (LastPackageDecoded + 1)..iter[1].reader.pos :
                 DecodeEntry(StreamRecords[j])
                   = Some(iter[1].found_without_package[k])

\* The entries the scan of a block pushes from its k-th iteration on, in
\* order, each with the package record that owns it in the block.
RECURSIVE Pushes(_, _, _, _)
Pushes(it, block, its, k) ==
    IF k > Len(its) THEN <<>>
    ELSE (IF Yielding(it, block, its[k])
          THEN <<[owner |-> Owner(it, block, its, k).val,
                  entry |-> DecodeEntry(HitRecord(it, block, its, k))[1]]>>
          ELSE <<>>) \o Pushes(it, block, its, k + 1)

\* What a block makes of the entries pending when it is entered: they stay
\* when the block has no package record, are attributed to its first
\* package when the bounds accept it, and are dropped otherwise.
OrphansKept(it, first) ==
    IF first.val = None THEN it.found_without_package ELSE <<>>
OrphansAttributed(it, first) ==
    IF first.val # None /\ should_search_package(it, first.val[1].pkg)
    THEN [k \in DOMAIN it.found_without_package |->
            [pkg |-> first.val[1].pkg, entry |-> it.found_without_package[k]]]
    ELSE <<>>

\* Every block that does not fail leaves in found what was there, then the
\* pending entries it attributed, then the entries it pushed with their
\* package, and in found_without_package the pending entries it kept, then
\* the entries it pushed without a package: an entry is in one buffer only,
\* and a pending entry is attributed once, kept or dropped.
BlockAccounting ==
    call # None
    => \A b \in DOMAIN call[1].blocks :
          LET block == call[1].blocks[b].block
              account(it, out, first, pushes) ==
                out.err = None
                => /\ out.it.found
                        = it.found \o OrphansAttributed(it, first)
                            \o [k \in DOMAIN SelectSeq(pushes,
                                    LAMBDA p : p.owner # None) |->
                                  [pkg |-> SelectSeq(pushes,
                                      LAMBDA p : p.owner # None)[k].owner[1].pkg,
                                   entry |-> SelectSeq(pushes,
                                      LAMBDA p : p.owner # None)[k].entry]]
                   /\ out.it.found_without_package
                        = OrphansKept(it, first)
                            \o [k \in DOMAIN SelectSeq(pushes,
                                    LAMBDA p : p.owner = None) |->
                                  SelectSeq(pushes,
                                      LAMBDA p : p.owner = None)[k].entry]
          IN  account(Entered(b), process_block(Entered(b), block),
                      scan_forward(block, 0),
                      Pushes(Entered(b), block,
                             call[1].blocks[b].iterations, 1))

\* C24: the orphan buffer.  Between the calls of next() every entry
\* without a package comes from a file record after the last package
\* record of the blocks decoded so far; and in every block an entry goes
\* to one of the two buffers only, and a pending entry is attributed once
\* or dropped.
C24_OrphanBuffer == OrphansLocated /\ BlockAccounting

\* No call of next() has returned an error.
NoErrorSoFar == \A k \in DOMAIN results : results[k].t # "Err"

\* The orphan buffer as long as no call of next() has failed.
OrphanBufferUntilError == NoErrorSoFar => C24_OrphanBuffer

\* C25: errors in the front end.  Under nix-locate an error returned by the
\* iterator is not removed by the filter: it is the last result pulled,
\* the run has ended with ReadDatabase, and what is printed comes from the
\* entries pulled before it.
C25_ErrorEndsOutput ==
    \A k \in DOMAIN results :
        results[k].t = "Err"
        => /\ k = Len(results)
           /\ pc = "failed"
           /\ locate.result = Some([t |-> "Err", err |-> ReadDatabase])
           /\ Len(locate.stdout)
                 <= Cardinality({j \in 1..(k - 1) : results[j].t = "Ok"})

\* nix-locate printed an entry, then the iterator returned an error with
\* records left to decode, and the run ended with ReadDatabase.
C25_Witness ==
    /\ pc = "failed"
    /\ results # <<>>
    /\ results[Len(results)].t = "Err"
    /\ locate.stdout # <<>>
    /\ iter[1].reader.pos < Len(file.frames)

====
